---------------------------- MODULE Spec2Model ----------------------------
(***************************************************************************)
(* Model of the currency-rate resolution core of travel-planner-agent      *)
(* (src/src/tools/currency_api.py, class CurrencyAPI) and of the callers   *)
(* that drive it.                                                          *)
(*                                                                         *)
(* Numbers.  The code computes with decimal.Decimal.  A Decimal is         *)
(* modelled as the pair [m, e] standing for m * 10^e, which is how Decimal *)
(* itself stores a value; multiplication is exact (mantissas multiply,     *)
(* exponents add), as it is in the code for operands of this size.         *)
(***************************************************************************)
EXTENDS Integers, Sequences, FiniteSets, TLC

VARIABLES result, kept, run, mgr

vars == <<result, kept, run, mgr>>

---------------------------------------------------------------------------
(* Bounds of the model.                                                    *)

\* longest list of target currencies handed to the batch operation
MaxTargets == 3

\* longest span, in days, between start_date and end_date of a historical
\* query
MaxDays == 3

---------------------------------------------------------------------------
(* Decimal arithmetic.                                                     *)

Dec(m, e) == [m |-> m, e |-> e]

RECURSIVE Pow10(_)
Pow10(n) == IF n <= 0 THEN 1 ELSE 10 * Pow10(n - 1)

\* Decimal.__mul__: exact product
DMul(a, b) == Dec(a.m * b.m, a.e + b.e)

\* a < b on the values, without forming a product that could overflow
DLess(a, b) ==
    IF a.e >= b.e
    THEN a.m <= ((b.m - 1) \div Pow10(a.e - b.e))
    ELSE b.m > (a.m \div Pow10(b.e - a.e))

DEq(a, b) == ~DLess(a, b) /\ ~DLess(b, a)

Abs(x) == IF x < 0 THEN -x ELSE x

\* precision of the default decimal context (decimal.getcontext().prec)
DecimalPrec == 28

\* number of decimal digits of a positive integer
RECURSIVE NumDigits(_)
NumDigits(n) == IF n < 10 THEN 1 ELSE 1 + NumDigits(n \div 10)

\* long division: the next n digits of r / m for a remainder 0 <= r < m
RECURSIVE DivDigits(_, _, _)
DivDigits(r, m, n) ==
    IF n = 0
    THEN <<>>
    ELSE <<(r * 10) \div m>> \o DivDigits((r * 10) % m, m, n - 1)

\* the remainder that is left after those n digits
RECURSIVE DivRem(_, _, _)
DivRem(r, m, n) == IF n = 0 THEN r ELSE DivRem((r * 10) % m, m, n - 1)

\* a digit string plus one in its last place
RECURSIVE Increment(_)
Increment(ds) ==
    IF ds = <<>>
    THEN <<1>>
    ELSE IF ds[Len(ds)] = 9
    THEN Append(Increment(SubSeq(ds, 1, Len(ds) - 1)), 0)
    ELSE [ds EXCEPT ![Len(ds)] = @ + 1]

\* A Decimal too long for a machine integer: sign * (the number written by
\* digits) * 10^e
Long(sign, digits, e) == [sign |-> sign, digits |-> digits, e |-> e]

\* ROUND_HALF_EVEN of the quotient digits ds with remainder rem of a
\* division by a
Rounded(ds, rem, a, sign, e) ==
    Long(sign,
         IF 2 * rem > a \/ (2 * rem = a /\ ds[Len(ds)] % 2 = 1)
         THEN Increment(ds)
         ELSE ds,
         e)

\* Decimal(1) / rate at prec significant digits, for rate # 0.  An exact
\* quotient is kept with its trailing zeros, which Python drops: the value
\* is the same.
ReciprocalAt(rate, prec) ==
    IF Abs(rate.m) = Pow10(NumDigits(Abs(rate.m)) - 1)
    THEN Long(IF rate.m < 0 THEN -1 ELSE 1, <<1>>,
              (-(NumDigits(Abs(rate.m)) - 1)) - rate.e)
    ELSE Rounded(DivDigits(Pow10(NumDigits(Abs(rate.m)) - 1), Abs(rate.m), prec),
                 DivRem(Pow10(NumDigits(Abs(rate.m)) - 1), Abs(rate.m), prec),
                 Abs(rate.m),
                 IF rate.m < 0 THEN -1 ELSE 1,
                 ((-(NumDigits(Abs(rate.m)) - 1)) - prec) - rate.e)

\* a division carried out at six significant digits only
ReciprocalShort(rate) == ReciprocalAt(rate, 6)

\* Decimal(1) / rate in the default context; the operand is bound to its
\* value first, so that the division works on a number and not on the
\* expression that produced it
Reciprocal(rate) ==
    CHOOSE q \in {ReciprocalAt(r, DecimalPrec) : r \in {rate}} : TRUE

\* a short Decimal in the long form
RECURSIVE DigitsOf(_)
DigitsOf(n) == IF n = 0 THEN <<>> ELSE Append(DigitsOf(n \div 10), n % 10)

AsLong(d) == Long(IF d.m < 0 THEN -1 ELSE 1, DigitsOf(Abs(d.m)), d.e)

\* Decimal(str(amount)) for an integral amount (for the float 10000.0 the
\* code gets Decimal("10000.0"), the same value with another exponent)
DecimalOfAmount(amount) == Dec(amount, 0)

---------------------------------------------------------------------------
(* Currency codes.                                                         *)

\* get_currency_list: the ten supported currencies
get_currency_list ==
    {"CNY", "USD", "EUR", "GBP", "JPY", "KRW", "HKD", "SGD", "AUD", "CAD"}

\* strings that are no currency code: an unknown code, and a city name as the
\* CLI batch query passes it in the target position
UnknownCodes == {"XXX", "Tokyo"}

Codes == get_currency_list \cup UnknownCodes

\* the amounts callers pass (the CLI default is 10000)
Amounts == {-100, 0, 100, 10000}

\* the outcome of the live fetch: "shipped" is the body of _fetch_real_rate
\* as it stands (it delegates to the built-in table); "raise" is the API call
\* failing, the case the except-branch of get_exchange_rate is written for
FetchModes == {"shipped", "raise"}

---------------------------------------------------------------------------
(* The built-in table of _get_mock_rate.                                   *)

mock_rates ==
    [CNY |-> [USD |-> Dec(138, -3),   JPY |-> Dec(205, -1),
              EUR |-> Dec(127, -3),   GBP |-> Dec(110, -3),
              KRW |-> Dec(1855, -1),  HKD |-> Dec(1075, -3),
              SGD |-> Dec(188, -3),   AUD |-> Dec(210, -3),
              CAD |-> Dec(188, -3)],
     USD |-> [CNY |-> Dec(7246, -3),  JPY |-> Dec(1485, -1),
              EUR |-> Dec(921, -3),   GBP |-> Dec(797, -3),
              KRW |-> Dec(13442, -1), HKD |-> Dec(7789, -3),
              SGD |-> Dec(1361, -3),  AUD |-> Dec(1522, -3),
              CAD |-> Dec(1361, -3)],
     JPY |-> [CNY |-> Dec(488, -4),   USD |-> Dec(673, -5),
              EUR |-> Dec(621, -5),   GBP |-> Dec(537, -5),
              KRW |-> Dec(9052, -3),  HKD |-> Dec(524, -4),
              SGD |-> Dec(917, -5),   AUD |-> Dec(1025, -5),
              CAD |-> Dec(917, -5)],
     EUR |-> [CNY |-> Dec(7874, -3),  USD |-> Dec(1086, -3),
              JPY |-> Dec(1612, -1),  GBP |-> Dec(866, -3),
              KRW |-> Dec(14593, -1), HKD |-> Dec(8462, -3),
              SGD |-> Dec(1478, -3),  AUD |-> Dec(1653, -3),
              CAD |-> Dec(1478, -3)]]

\* default_rate = Decimal("1.0")
default_rate == Dec(10, -1)

\* the source tags the code writes
TagMock == "Mock"
TagRealAPI == "RealAPI"

---------------------------------------------------------------------------
(* Values a call ends with.  status "ok" is a normal return; any other     *)
(* status is the exception that left the call.  "branch" is not a field of *)
(* the code's ExchangeRate: it records which branch of _get_mock_rate      *)
(* produced the number, so that provenance can be stated.  The field       *)
(* timestamp of the code's records is left out.                            *)

Raised(exc) == [status |-> exc]

ExchangeRate(base, target, rate, inverse_rate, source, branch) ==
    [status |-> "ok", base_currency |-> base, target_currency |-> target,
     rate |-> rate, inverse_rate |-> inverse_rate, source |-> source,
     branch |-> branch]

\* the return statement of _get_mock_rate
MockRate(from, to, rate, branch) ==
    ExchangeRate(from, to, rate,
                 IF rate.m > 0 THEN Reciprocal(rate) ELSE AsLong(default_rate),
                 TagMock, branch)

\* a _get_mock_rate with memory: after a request for another pair it has
\* lost its table and answers 1
get_mock_rate_after_other(from, to) ==
    IF /\ kept.op = "get_exchange_rate"
       /\ <<kept.from_currency, kept.to_currency>> # <<from, to>>
    THEN MockRate(from, to, default_rate, "default")
    ELSE IF from \in DOMAIN mock_rates /\ to \in DOMAIN mock_rates[from]
    THEN MockRate(from, to, mock_rates[from][to], "table")
    ELSE MockRate(from, to, default_rate, "default")

\* a _get_mock_rate that looks the base row up with a default instead of a
\* subscript: a base without a row gets default_rate, not a KeyError
get_mock_rate_lenient(from, to) ==
    IF from \in DOMAIN mock_rates /\ to \in DOMAIN mock_rates[from]
    THEN MockRate(from, to, mock_rates[from][to], "table")
    ELSE IF from \in DOMAIN mock_rates /\ from # "USD" /\ from # to
    THEN MockRate(from, to, mock_rates[from]["USD"], "single_leg")
    ELSE MockRate(from, to, default_rate, "default")

\* a _get_mock_rate that composes through USD whenever both legs are in the
\* table, before it looks for the direct entry
get_mock_rate_product_first(from, to) ==
    IF /\ from # to /\ from # "USD" /\ to # "USD"
       /\ from \in DOMAIN mock_rates /\ to \in DOMAIN mock_rates["USD"]
    THEN MockRate(from, to,
                  DMul(mock_rates[from]["USD"], mock_rates["USD"][to]),
                  "product")
    ELSE IF from \in DOMAIN mock_rates /\ to \in DOMAIN mock_rates[from]
    THEN MockRate(from, to, mock_rates[from][to], "table")
    ELSE MockRate(from, to, default_rate, "default")

\* CurrencyAPI._get_mock_rate; the KeyError is that of the subscript
\* mock_rates[from_currency]["USD"] for a from_currency that has no row
get_mock_rate(from, to) ==
    IF from \in DOMAIN mock_rates /\ to \in DOMAIN mock_rates[from]
    THEN MockRate(from, to, mock_rates[from][to], "table")
    ELSE IF from = to
    THEN MockRate(from, to, default_rate, "same")
    ELSE IF from # "USD" /\ "USD" \in DOMAIN mock_rates
    THEN IF from \notin DOMAIN mock_rates
         THEN Raised("KeyError")
         ELSE IF to \in DOMAIN mock_rates["USD"]
         THEN MockRate(from, to,
                       DMul(mock_rates[from]["USD"], mock_rates["USD"][to]),
                       "product")
         ELSE MockRate(from, to, mock_rates[from]["USD"], "single_leg")
    ELSE MockRate(from, to, default_rate, "default")

\* CurrencyAPI._fetch_real_rate: the rate of the built-in table, or the
\* exception that ends the fetch
fetch_real_rate(from, to, fetch) ==
    IF fetch = "raise"
    THEN Raised("Exception")
    ELSE get_mock_rate(from, to)

\* get_exchange_rate after the await of _fetch_real_rate: the try-branch
\* wraps the fetched rate, the except-branch returns _get_mock_rate (also
\* after the ZeroDivisionError of Decimal(1) / rate for a zero rate)
AfterFetch(fetched, from, to) ==
    IF fetched.status = "ok" /\ fetched.rate.m # 0
    THEN ExchangeRate(from, to, fetched.rate, Reciprocal(fetched.rate),
                      TagRealAPI, fetched.branch)
    ELSE get_mock_rate(from, to)

\* CurrencyAPI.get_exchange_rate
get_exchange_rate(from, to, fetch) ==
    AfterFetch(fetch_real_rate(from, to, fetch), from, to)

\* a convert_currency that rounds the product to two decimal places before
\* returning it
AfterRateRounded(rate_data, amount_decimal, from, to) ==
    IF rate_data.status # "ok"
    THEN rate_data
    ELSE [status |-> "ok", amount |-> amount_decimal,
          from_currency |-> from, to_currency |-> to,
          converted_amount |->
              IF amount_decimal.e + rate_data.rate.e < -2
              THEN Dec((amount_decimal.m * rate_data.rate.m)
                         \div Pow10((-2) - (amount_decimal.e + rate_data.rate.e)),
                       -2)
              ELSE DMul(amount_decimal, rate_data.rate),
          rate |-> rate_data.rate, source |-> rate_data.source,
          branch |-> rate_data.branch]

\* convert_currency after the await of get_exchange_rate
AfterRate(rate_data, amount_decimal, from, to) ==
    IF rate_data.status # "ok"
    THEN rate_data
    ELSE [status |-> "ok", amount |-> amount_decimal,
          from_currency |-> from, to_currency |-> to,
          converted_amount |-> DMul(amount_decimal, rate_data.rate),
          rate |-> rate_data.rate, source |-> rate_data.source,
          branch |-> rate_data.branch]

\* CurrencyAPI.convert_currency
convert_currency(amount, from, to, fetch) ==
    AfterRate(get_exchange_rate(from, to, fetch), DecimalOfAmount(amount),
              from, to)

---------------------------------------------------------------------------
(* The batch operation and its tips.                                       *)

\* a max() that returns the first element whatever the amounts
MaxIndexFirst(conversions) == 1

\* max(conversions, key=lambda x: float(x.converted_amount)): the index of
\* the first element no other element exceeds
MaxIndex(conversions) ==
    CHOOSE i \in 1..Len(conversions) :
        /\ \A j \in 1..Len(conversions) :
               ~DLess(conversions[i].converted_amount,
                      conversions[j].converted_amount)
        /\ \A j \in 1..(i - 1) :
               DLess(conversions[j].converted_amount,
                     conversions[i].converted_amount)

\* the smallest exponent among the converted amounts of a batch
MinExp(conversions) ==
    CHOOSE e \in {conversions[i].converted_amount.e : i \in 1..Len(conversions)} :
        \A i \in 1..Len(conversions) : e <= conversions[i].converted_amount.e

\* the converted amounts as integers, all brought to exponent e
AtExp(conversions, e) ==
    [i \in 1..Len(conversions) |->
        conversions[i].converted_amount.m
          * Pow10(conversions[i].converted_amount.e - e)]

\* the largest power of ten that divides every value (0 when all are zero)
CommonPow(vals) ==
    IF \A i \in DOMAIN vals : vals[i] = 0
    THEN 0
    ELSE CHOOSE k \in 0..9 :
           /\ \A i \in DOMAIN vals : vals[i] % Pow10(k) = 0
           /\ \A j \in (k + 1)..9 : \E i \in DOMAIN vals : vals[i] % Pow10(j) # 0

DivideAll(vals, k) == [i \in DOMAIN vals |-> vals[i] \div Pow10(k)]

Reduce(vals) == DivideAll(vals, CommonPow(vals))

\* float(c.converted_amount) for every c, as integers on one common scale:
\* each amount is brought to the smallest exponent of the batch, and the
\* power of ten common to all of them is divided out
Scaled(conversions) == Reduce(AtExp(conversions, MinExp(conversions)))

RECURSIVE SumSeq(_)
SumSeq(vals) ==
    IF Len(vals) = 0 THEN 0 ELSE vals[1] + SumSeq(Tail(vals))

Tip(kind, currency) == [kind |-> kind, currency |-> currency]

\* the three general tips appended at the end of _generate_exchange_tips
GeneralTips ==
    <<Tip("general_authorized_venue", ""), Tip("general_little_cash", ""),
      Tip("general_query_again", "")>>

\* a loop body whose second threshold is 1.2 as well: every amount that is
\* not above 1.2 * avg gets the below-average tip
ValueTipOneThreshold(to_currency, val, n, total) ==
    IF 5 * n * val > 6 * total
    THEN <<Tip("above_average", to_currency)>>
    ELSE <<Tip("below_average", to_currency)>>

\* the tip of the loop body for one conversion; with avg = total / n,
\* amount > avg * 1.2 is 5 * n * amount > 6 * total and
\* amount < avg * 0.8 is 5 * n * amount < 4 * total
ValueTip(to_currency, val, n, total) ==
    IF 5 * n * val > 6 * total
    THEN <<Tip("above_average", to_currency)>>
    ELSE IF 5 * n * val < 4 * total
    THEN <<Tip("below_average", to_currency)>>
    ELSE << >>

\* the tips of the loop over the conversions from position i on
RECURSIVE ValueTips(_, _, _, _)
ValueTips(conversions, vals, total, i) ==
    IF i > Len(conversions)
    THEN << >>
    ELSE ValueTip(conversions[i].to_currency, vals[i], Len(conversions), total)
           \o ValueTips(conversions, vals, total, i + 1)

TipsOf(conversions, vals) ==
    <<Tip("best", conversions[MaxIndex(conversions)].to_currency)>>
      \o ValueTips(conversions, vals, SumSeq(vals), 1)
      \o GeneralTips

\* CurrencyAPI._generate_exchange_tips
generate_exchange_tips(conversions) ==
    IF Len(conversions) = 0
    THEN << >>
    ELSE TipsOf(conversions, Scaled(conversions))

\* the loop of get_travel_exchange_advice over to_currencies: the conversions
\* in request order, or the exception of the first conversion that raises
RECURSIVE ConvertEach(_, _, _, _, _)
RECURSIVE AfterConversion(_, _, _, _, _, _)
ConvertEach(budget, from, to_currencies, fetch, conversions) ==
    IF Len(to_currencies) = 0
    THEN [status |-> "ok", conversions |-> conversions]
    ELSE AfterConversion(
             convert_currency(budget, from, Head(to_currencies), fetch),
             budget, from, Tail(to_currencies), fetch, conversions)

AfterConversion(conversion, budget, from, rest, fetch, conversions) ==
    IF conversion.status # "ok"
    THEN conversion
    ELSE ConvertEach(budget, from, rest, fetch, Append(conversions, conversion))

\* a get_travel_exchange_advice that hands back advice without a best
\* conversion when there is nothing to compare
AfterLoopGuarded(looped, budget, from) ==
    IF looped.status # "ok"
    THEN looped
    ELSE IF Len(looped.conversions) = 0
    THEN [status |-> "ok", budget |-> budget, from_currency |-> from,
          conversions |-> << >>, tips |-> << >>]
    ELSE [status |-> "ok", budget |-> budget, from_currency |-> from,
          conversions |-> looped.conversions,
          best_conversion |-> looped.conversions[MaxIndex(looped.conversions)],
          tips |-> generate_exchange_tips(looped.conversions)]

\* get_travel_exchange_advice after its loop
AfterLoop(looped, budget, from) ==
    IF looped.status # "ok"
    THEN looped
    ELSE IF Len(looped.conversions) = 0
    THEN Raised("ValueError")
    ELSE [status |-> "ok", budget |-> budget, from_currency |-> from,
          conversions |-> looped.conversions,
          best_conversion |-> looped.conversions[MaxIndex(looped.conversions)],
          tips |-> generate_exchange_tips(looped.conversions)]

\* CurrencyAPI.get_travel_exchange_advice
get_travel_exchange_advice(budget, from, to_currencies, fetch) ==
    AfterLoop(ConvertEach(budget, from, to_currencies, fetch, << >>),
              budget, from)

\* get_historical_rates after _get_mock_rate(from_currency, to_currency) has
\* been evaluated: its value is an ExchangeRate, which is no awaitable, so
\* the await raises TypeError; the statements after the await (the loop over
\* range(days + 1) and the return) are never reached
AfterMockRate(base_rate, from, to, days) ==
    IF base_rate.status # "ok"
    THEN base_rate
    ELSE Raised("TypeError")

\* CurrencyAPI.get_historical_rates for end_date = start_date + days
get_historical_rates(from, to, days) ==
    AfterMockRate(get_mock_rate(from, to), from, to, days)

---------------------------------------------------------------------------
(* State: result is what the last call ended with (None between calls);    *)
(* kept is the ExchangeRate a caller holds on to from its previous call;   *)
(* run is the activation of get_travel_exchange_advice that is under way   *)
(* when the batch is followed statement by statement (Idle otherwise);      *)
(* mgr is a UserPreferenceManager together with the dicts its caller       *)
(* holds and the clock.                                                    *)

None == [op |-> "none"]

\* the target currencies batch callers ask for
BatchTargets == {"USD", "EUR", "JPY", "GBP", "XXX"}

RECURSIVE SeqsUpTo(_, _)
SeqsUpTo(S, n) ==
    IF n = 0
    THEN {<< >>}
    ELSE SeqsUpTo(S, n - 1)
           \cup {Append(s, x) : s \in SeqsUpTo(S, n - 1), x \in S}

TargetLists == SeqsUpTo(BatchTargets, MaxTargets)

Idle == [pc |-> "idle"]

\* the base currencies of the batches that are followed step by step, and of
\* the conversions handed to _generate_exchange_tips: two with a table row
\* and one without
StepBases == {"CNY", "USD", "GBP"}

\* what a call of _generate_exchange_tips ends with
TipsCall(conversions) ==
    [op |-> "_generate_exchange_tips", conversions |-> conversions,
     out |-> [status |-> "ok", tips |-> generate_exchange_tips(conversions)]]

\* keys, and the dict objects the caller passes to update_preference: one
\* with a valid budget, one with a budget that fails validation (ge=0)
Keys == {"a", "b"}
Refs == {1, 2}

\* a fresh manager on an empty storage directory; the caller's two dicts
NewManager ==
    [preferences |-> [k \in Keys |-> None],
     preferences_history |-> << >>,
     dicts |-> <<[budget |-> 5000], [budget |-> -1]>>,
     now |-> 1]

Init ==
    /\ result = None
    /\ kept = None
    /\ run = Idle
    /\ mgr = NewManager

GetExchangeRate ==
    /\ result = None
    /\ \E from \in Codes, to \in Codes, fetch \in FetchModes :
         result' = [op |-> "get_exchange_rate", from_currency |-> from,
                    to_currency |-> to, fetch |-> fetch,
                    out |-> get_exchange_rate(from, to, fetch)]
    /\ UNCHANGED <<kept, run, mgr>>

ConvertCurrency ==
    /\ result = None
    /\ \E amount \in Amounts, from \in Codes, to \in Codes, fetch \in FetchModes :
         result' = [op |-> "convert_currency", amount |-> amount,
                    from_currency |-> from, to_currency |-> to,
                    fetch |-> fetch,
                    out |-> convert_currency(amount, from, to, fetch)]
    /\ UNCHANGED <<kept, run, mgr>>

GetTravelExchangeAdvice ==
    /\ result = None
    /\ \E budget \in Amounts, from \in Codes, to_currencies \in TargetLists,
          fetch \in FetchModes :
         result' = [op |-> "get_travel_exchange_advice", amount |-> budget,
                    from_currency |-> from, to_currencies |-> to_currencies,
                    fetch |-> fetch,
                    out |-> get_travel_exchange_advice(budget, from,
                                                       to_currencies, fetch)]
    /\ UNCHANGED <<kept, run, mgr>>

GetHistoricalRates ==
    /\ result = None
    /\ \E from \in Codes, to \in Codes, days \in 0..MaxDays :
         result' = [op |-> "get_historical_rates", from_currency |-> from,
                    to_currency |-> to, days |-> days,
                    out |-> get_historical_rates(from, to, days)]
    /\ UNCHANGED <<kept, run, mgr>>

\* _generate_exchange_tips called on its own with a list of conversions: the
\* conversions of a batch whose every target converts, the empty list included
GenerateExchangeTips ==
    /\ result = None
    /\ \E budget \in Amounts, from \in StepBases, to_currencies \in TargetLists,
          fetch \in FetchModes :
         /\ ConvertEach(budget, from, to_currencies, fetch, << >>).status = "ok"
         /\ result' = TipsCall(ConvertEach(budget, from, to_currencies, fetch,
                                           << >>).conversions)
    /\ UNCHANGED <<kept, run, mgr>>

\* the caller receives the value (or the exception) and drops it
Return ==
    /\ result # None
    /\ result' = None
    /\ UNCHANGED <<kept, run, mgr>>

\* the caller receives an ExchangeRate and holds on to it for its next call
Keep ==
    /\ result.op = "get_exchange_rate"
    /\ kept' = result
    /\ result' = None
    /\ UNCHANGED <<run, mgr>>

Next ==
    \/ GetExchangeRate
    \/ ConvertCurrency
    \/ GetTravelExchangeAdvice
    \/ GenerateExchangeTips
    \/ GetHistoricalRates
    \/ Return

Spec == Init /\ [][Next]_vars

---------------------------------------------------------------------------
(* get_travel_exchange_advice statement by statement.  The coroutine is    *)
(* a task of the event loop: between the start of an await and its         *)
(* completion the caller (or asyncio.wait_for on the caller's deadline)    *)
(* may cancel the task, and asyncio then throws CancelledError into the    *)
(* coroutine at that await.                                                *)

\* what the caller gets when the activation ends
Ended(r, cancelled, out) ==
    [op |-> "get_travel_exchange_advice", amount |-> r.budget,
     from_currency |-> r.from_currency, to_currencies |-> r.to_currencies,
     fetch |-> r.fetch, resolved |-> Len(r.conversions),
     cancelled |-> cancelled, out |-> out]

\* a cancellation that hands back what has been converted so far
OnCancelPartial(r) ==
    AfterLoop([status |-> "ok", conversions |-> r.conversions],
              r.budget, r.from_currency)

\* CancelledError thrown at the await: it is a BaseException, so neither the
\* except Exception of get_exchange_rate catches it nor anything in
\* convert_currency or get_travel_exchange_advice, and it leaves the call
OnCancel(r) == Raised("CancelledError")

\* the call is made: conversions = []
EnterBatch ==
    /\ result = None
    /\ run = Idle
    /\ \E budget \in Amounts, from \in StepBases, to_currencies \in TargetLists,
          fetch \in FetchModes :
         run' = [pc |-> "loop", budget |-> budget, from_currency |-> from,
                 to_currencies |-> to_currencies, fetch |-> fetch,
                 conversions |-> << >>]
    /\ UNCHANGED <<result, kept, mgr>>

\* for to_currency in to_currencies: the await of convert_currency for the
\* next target begins
StartConversion ==
    /\ run.pc = "loop"
    /\ Len(run.conversions) < Len(run.to_currencies)
    /\ run' = [run EXCEPT !.pc = "await"]
    /\ UNCHANGED <<result, kept, mgr>>

\* the awaited convert_currency has ended
Awaited(r) ==
    convert_currency(r.budget, r.from_currency,
                     r.to_currencies[Len(r.conversions) + 1], r.fetch)

\* the await completes: conversions.append(conversion), or the exception of
\* the conversion leaves the call
FinishConversion ==
    /\ run.pc = "await"
    /\ IF Awaited(run).status = "ok"
       THEN /\ run' = [run EXCEPT !.pc = "loop",
                                  !.conversions = Append(@, Awaited(run))]
            /\ UNCHANGED result
       ELSE /\ result' = Ended(run, FALSE, Awaited(run))
            /\ run' = Idle
    /\ UNCHANGED <<kept, mgr>>

\* the task is cancelled while the await is pending
Cancel ==
    /\ run.pc = "await"
    /\ result' = Ended(run, TRUE, OnCancel(run))
    /\ run' = Idle
    /\ UNCHANGED <<kept, mgr>>

\* the loop is over: max(), _generate_exchange_tips, return advice
Rank ==
    /\ run.pc = "loop"
    /\ Len(run.conversions) = Len(run.to_currencies)
    /\ result' = Ended(run, FALSE,
                       AfterLoop([status |-> "ok", conversions |-> run.conversions],
                                 run.budget, run.from_currency))
    /\ run' = Idle
    /\ UNCHANGED <<kept, mgr>>

NextBatch ==
    \/ EnterBatch
    \/ StartConversion
    \/ FinishConversion
    \/ Cancel
    \/ Rank
    \/ Return

SpecBatch == Init /\ [][NextBatch]_vars

---------------------------------------------------------------------------
(* get_exchange_rate with a live source behind _fetch_real_rate.  The      *)
(* shipped _fetch_real_rate is a placeholder that returns the table's      *)
(* rate; the rate a real source answers with is not under the program's    *)
(* control and may be any Decimal.                                         *)

\* rates a live source may answer with: a good one, zero, a negative one
LiveRates == {Dec(138, -3), Dec(0, 0), Dec(-138, -3)}

\* what _fetch_real_rate returns to the try-branch
Fetched(rate) == [status |-> "ok", rate |-> rate, branch |-> "live"]

GetExchangeRateLive ==
    /\ result = None
    /\ \E from \in Codes, to \in Codes, rate \in LiveRates :
         result' = [op |-> "get_exchange_rate", from_currency |-> from,
                    to_currency |-> to, fetch |-> "live", fetched |-> rate,
                    out |-> AfterFetch(Fetched(rate), from, to)]
    /\ UNCHANGED <<kept, run, mgr>>

NextLive ==
    \/ GetExchangeRateLive
    \/ Return

SpecLive == Init /\ [][NextLive]_vars

---------------------------------------------------------------------------
(* get_exchange_rate and convert_currency with a live source reached       *)
(* through self.client, the httpx.AsyncClient(timeout=10.0) of __init__.   *)
(* The request waits at the await of _fetch_real_rate; the source answers, *)
(* fails, or stays silent, and the client raises a TimeoutException (an    *)
(* Exception) once its timeout has passed.  One request is followed from   *)
(* the call to its end.                                                    *)

\* timeout of self.client, in seconds
ClientTimeout == 10

\* the target currencies of the requests that are followed: in the table,
\* in the list only, and unknown
RequestTargets == {"USD", "JPY", "GBP", "XXX"}

\* what the live source does with a request
SourceModes == {"answers", "fails", "silent"}

\* the client has waited for its timeout
TimedOut(r) == r.elapsed >= ClientTimeout

\* what the caller gets when the request ends: the ExchangeRate itself for
\* get_exchange_rate, the conversion built from it for convert_currency
Completed(r, rate_data) ==
    [op |-> r.op, amount |-> r.amount, from_currency |-> r.from_currency,
     to_currency |-> r.to_currency, fetch |-> r.source_mode,
     out |-> IF r.op = "get_exchange_rate"
             THEN rate_data
             ELSE AfterRate(rate_data, DecimalOfAmount(r.amount),
                            r.from_currency, r.to_currency)]

\* the call is made and reaches the await of _fetch_real_rate
EnterRequest ==
    /\ result = None
    /\ run = Idle
    /\ \E op \in {"get_exchange_rate", "convert_currency"}, amount \in Amounts,
          from \in StepBases, to \in RequestTargets, mode \in SourceModes :
         /\ op = "get_exchange_rate" => amount = 0
         /\ run' = [pc |-> "fetch", op |-> op, amount |-> amount,
                    from_currency |-> from, to_currency |-> to,
                    source_mode |-> mode, elapsed |-> 0]
    /\ UNCHANGED <<result, kept, mgr>>

\* a second passes while the request waits
Tick ==
    /\ run.pc = "fetch"
    /\ ~TimedOut(run)
    /\ run' = [run EXCEPT !.elapsed = @ + 1]
    /\ UNCHANGED <<result, kept, mgr>>

\* the source answers in time: the try-branch returns
FetchAnswers ==
    /\ run.pc = "fetch"
    /\ run.source_mode = "answers"
    /\ \E rate_data \in {get_exchange_rate(run.from_currency, run.to_currency,
                                            "shipped")} :
         result' = Completed(run, rate_data)
    /\ run' = Idle
    /\ UNCHANGED <<kept, mgr>>

\* the source fails: the except-branch returns _get_mock_rate
FetchFails ==
    /\ run.pc = "fetch"
    /\ run.source_mode = "fails"
    /\ \E rate_data \in {AfterFetch(Raised("Exception"),
                                     run.from_currency, run.to_currency)} :
         result' = Completed(run, rate_data)
    /\ run' = Idle
    /\ UNCHANGED <<kept, mgr>>

\* a client without a timeout: it never gives up on a request
ClientNeverGivesUp == FALSE /\ UNCHANGED vars

\* the client gives up: TimeoutException, caught by the except-branch
FetchTimesOut ==
    /\ run.pc = "fetch"
    /\ TimedOut(run)
    /\ \E rate_data \in {AfterFetch(Raised("TimeoutException"),
                                     run.from_currency, run.to_currency)} :
         result' = Completed(run, rate_data)
    /\ run' = Idle
    /\ UNCHANGED <<kept, mgr>>

NextRequest ==
    \/ EnterRequest
    \/ Tick
    \/ FetchAnswers
    \/ FetchFails
    \/ FetchTimesOut

\* time keeps passing, and the event loop resumes a request whose await has
\* an answer, a failure or a timeout to deliver
SpecRequest ==
    /\ Init /\ [][NextRequest]_vars
    /\ WF_vars(Tick)
    /\ WF_vars(FetchAnswers)
    /\ WF_vars(FetchFails)
    /\ WF_vars(FetchTimesOut)

---------------------------------------------------------------------------
(* UserPreferenceManager (utils/preferences.py).  A TravelPreferences is   *)
(* reduced to its validated field budget and to updated_at.  The caller's  *)
(* updates dicts are objects: update_preference receives a reference,      *)
(* writes updates['updated_at'] into the object and stores the reference   *)
(* in the history entry.  _save_preferences and _save_preferences_history  *)
(* write files and catch every exception; they leave the two attributes    *)
(* as they are and are not modelled.  datetime.now() is the counter now.   *)

\* number of calls made on the manager
MaxCalls == 4

\* the TravelPreferences objects the caller saves
SavedPreferences == {[budget |-> 0, updated_at |-> 0],
                     [budget |-> 5000, updated_at |-> 0]}

\* what a call of the manager ends with
Answer(op, key, value) ==
    [op |-> op, key |-> key, out |-> [status |-> "ok", value |-> value]]

\* TravelPreferences(**old_pref) passes validation
Valid(pref) == pref.budget >= 0

\* updates['updated_at'] = datetime.now(), written into the caller's object
StampedInPlace(dicts, ref, now) ==
    [dicts EXCEPT ![ref] = [budget |-> dicts[ref].budget, updated_at |-> now]]

\* old_pref = self.preferences[key].dict(); old_pref.update(updates): both
\* fields kept here are overwritten by the stamped updates
Merged(pref, updates, now) ==
    [budget |-> updates.budget, updated_at |-> now]

save_preference(key, preferences) ==
    /\ mgr' = [mgr EXCEPT
                 !.preferences_history =
                     Append(@, [key |-> key, preferences |-> preferences,
                                action |-> "save", timestamp |-> mgr.now]),
                 !.preferences[key] = preferences,
                 !.now = @ + 1]
    /\ result' = Answer("save_preference", key, TRUE)

update_preference(key, ref) ==
    IF mgr.preferences[key] = None
    THEN /\ mgr' = [mgr EXCEPT !.now = @ + 1]
         /\ result' = Answer("update_preference", key, FALSE)
    ELSE IF ~Valid(Merged(mgr.preferences[key], mgr.dicts[ref], mgr.now))
    THEN /\ mgr' = [mgr EXCEPT
                      !.dicts = StampedInPlace(mgr.dicts, ref, mgr.now),
                      !.now = @ + 1]
         /\ result' = Answer("update_preference", key, FALSE)
    ELSE /\ mgr' = [mgr EXCEPT
                      !.dicts = StampedInPlace(mgr.dicts, ref, mgr.now),
                      !.preferences_history =
                          Append(@, [key |-> key,
                                     preferences |->
                                         Merged(mgr.preferences[key],
                                                mgr.dicts[ref], mgr.now),
                                     action |-> "update", updates |-> ref,
                                     timestamp |-> mgr.now]),
                      !.preferences[key] =
                          Merged(mgr.preferences[key], mgr.dicts[ref], mgr.now),
                      !.now = @ + 1]
         /\ result' = Answer("update_preference", key, TRUE)

delete_preference(key) ==
    IF mgr.preferences[key] = None
    THEN /\ mgr' = [mgr EXCEPT !.now = @ + 1]
         /\ result' = Answer("delete_preference", key, FALSE)
    ELSE /\ mgr' = [mgr EXCEPT
                      !.preferences_history =
                          Append(@, [key |-> key,
                                     preferences |-> mgr.preferences[key],
                                     action |-> "delete",
                                     timestamp |-> mgr.now]),
                      !.preferences[key] = None,
                      !.now = @ + 1]
         /\ result' = Answer("delete_preference", key, TRUE)

clear_all_preferences ==
    /\ mgr' = [mgr EXCEPT
                 !.preferences_history =
                     Append(@, [key |-> "ALL", action |-> "clear_all",
                                timestamp |-> mgr.now,
                                count |-> Cardinality({k \in Keys :
                                              mgr.preferences[k] # None})]),
                 !.preferences = [k \in Keys |-> None],
                 !.now = @ + 1]
    /\ result' = Answer("clear_all_preferences", "ALL", TRUE)

SavePreference ==
    /\ mgr.now <= MaxCalls
    /\ \E key \in Keys, preferences \in SavedPreferences :
         save_preference(key, preferences)
    /\ UNCHANGED <<kept, run>>

UpdatePreference ==
    /\ mgr.now <= MaxCalls
    /\ \E key \in Keys, ref \in Refs : update_preference(key, ref)
    /\ UNCHANGED <<kept, run>>

DeletePreference ==
    /\ mgr.now <= MaxCalls
    /\ \E key \in Keys : delete_preference(key)
    /\ UNCHANGED <<kept, run>>

ClearAllPreferences ==
    /\ mgr.now <= MaxCalls
    /\ clear_all_preferences
    /\ UNCHANGED <<kept, run>>

NextPreferences ==
    \/ SavePreference
    \/ UpdatePreference
    \/ DeletePreference
    \/ ClearAllPreferences

SpecPreferences == Init /\ [][NextPreferences]_vars

\* a caller that issues rate queries one after the other and compares each
\* answer with the one before
NextRoundTrip ==
    \/ GetExchangeRate
    \/ Keep

SpecRoundTrip == Init /\ [][NextRoundTrip]_vars


---------------------------------------------------------------------------
(* Vocabulary of the properties.                                           *)

IsRateCall == result.op = "get_exchange_rate"
IsConvertCall == result.op = "convert_currency"
IsBatchCall == result.op = "get_travel_exchange_advice"

Returned == result.out.status = "ok"

\* the built-in table has a direct entry for (from, to)
InTable(from, to) ==
    from \in DOMAIN mock_rates /\ to \in DOMAIN mock_rates[from]

One == Dec(1, 0)

\* |p - 1| <= 10^-digits for a Decimal p with a non-positive exponent
NearOne(p, digits) ==
    Abs(p.m - Pow10(-p.e)) * Pow10(digits + p.e) <= Pow10((-p.e) - digits)

\* the conversions of a returned batch are ordered by converted_amount,
\* largest first
Descending(conversions) ==
    \A i \in 1..Len(conversions) : \A j \in (i + 1)..Len(conversions) :
        ~DLess(conversions[i].converted_amount, conversions[j].converted_amount)

\* a returned batch holds exactly one conversion per requested target
OnePerTarget(to_currencies, conversions) ==
    /\ Len(conversions) = Len(to_currencies)
    /\ \A t \in BatchTargets :
         Cardinality({i \in 1..Len(conversions) : conversions[i].to_currency = t})
           = Cardinality({i \in 1..Len(to_currencies) : to_currencies[i] = t})

---------------------------------------------------------------------------
(* Properties.                                                             *)

\* C1: for every ordered pair of the ten supported currencies,
\* get_exchange_rate returns an ExchangeRate and raises nothing, whether the
\* live fetch succeeds or fails.
C1_SupportedPairNeverRaises ==
    (IsRateCall /\ result.from_currency \in get_currency_list
                /\ result.to_currency \in get_currency_list)
        => Returned

\* C2: a pair absent from every tier (no direct entry, not both pivot legs
\* known) resolves to rate 1 tagged Mock; it neither raises nor returns any
\* other number.
AbsentFromEveryTier(from, to) ==
    /\ from # to
    /\ ~InTable(from, to)
    /\ ~(InTable(from, "USD") /\ InTable("USD", to))

C2_AbsentPairIsMockOne ==
    (IsRateCall /\ AbsentFromEveryTier(result.from_currency, result.to_currency))
        => /\ Returned
           /\ DEq(result.out.rate, One)
           /\ result.out.source = "Mock"

\* C3: a request whose base or target is no currency code of the known set
\* ends with InvalidCurrencyCode, in get_exchange_rate and in
\* convert_currency; no rate or converted amount is returned for it.
C3_UnknownCodeIsRejected ==
    ((IsRateCall \/ IsConvertCall)
       /\ (result.from_currency \notin get_currency_list
             \/ result.to_currency \notin get_currency_list))
        => result.out.status = "InvalidCurrencyCode"

\* C4: convert_currency with a negative amount ends with NegativeAmount, for
\* a single conversion and for a batch; no negative converted amount is
\* returned.
C4_NegativeAmountIsRejected ==
    ((IsConvertCall \/ IsBatchCall) /\ result.amount < 0)
        => result.out.status = "NegativeAmount"

\* C5: for every valid code X, resolving (X, X) returns rate 1 tagged
\* Reference, whatever the live fetch does.
C5_SameCurrencyIsReferenceOne ==
    (IsRateCall /\ result.from_currency = result.to_currency
                /\ result.from_currency \in get_currency_list)
        => /\ Returned
           /\ DEq(result.out.rate, One)
           /\ result.out.source = "Reference"

\* C6: a returned rate or conversion whose number did not come from a live
\* provider (it came from a branch of the built-in resolution) carries a
\* source tag other than the live-provider tag.
BuiltInBranches == {"table", "same", "product", "single_leg", "default"}

C6_DegradedIsNotTaggedLive ==
    ((IsRateCall \/ IsConvertCall) /\ Returned
       /\ result.out.branch \in BuiltInBranches)
        => result.out.source # TagRealAPI

\* C7: when the live fetch fails, a pair present in the built-in table still
\* resolves: the call returns the table rate tagged Reference.
C7_TablePairSurvivesFetchFailure ==
    (IsRateCall /\ result.fetch = "raise"
       /\ InTable(result.from_currency, result.to_currency))
        => /\ Returned
           /\ result.out.rate = mock_rates[result.from_currency][result.to_currency]
           /\ result.out.source = "Reference"

\* C8: for a pair (X, Y) with no direct rate whose legs rate(X, USD) = r1 and
\* rate(USD, Y) = r2 both resolve, the resolved rate is r1 * r2 and is tagged
\* PivotComposed.
LegsResolve(from, to, fetch) ==
    /\ get_exchange_rate(from, "USD", fetch).status = "ok"
    /\ get_exchange_rate("USD", to, fetch).status = "ok"

C8_PivotComposition ==
    (IsRateCall /\ result.from_currency # result.to_currency
       /\ ~InTable(result.from_currency, result.to_currency)
       /\ LegsResolve(result.from_currency, result.to_currency, result.fetch))
        => /\ Returned
           /\ DEq(result.out.rate,
                  DMul(get_exchange_rate(result.from_currency, "USD",
                                         result.fetch).rate,
                       get_exchange_rate("USD", result.to_currency,
                                         result.fetch).rate))
           /\ result.out.source = "PivotComposed"

\* C9: round-trip law: when get_exchange_rate(X, Y) and get_exchange_rate(Y, X)
\* both return and come from the same tier, rate(X, Y) * rate(Y, X) is within
\* 10^-3 of 1.
SameTier(a, b) == a.source = b.source /\ a.branch = b.branch

C9_RoundTrip ==
    (IsRateCall /\ kept.op = "get_exchange_rate"
       /\ Returned /\ kept.out.status = "ok"
       /\ kept.from_currency = result.to_currency
       /\ kept.to_currency = result.from_currency
       /\ SameTier(kept.out, result.out))
        => NearOne(DMul(kept.out.rate, result.out.rate), 3)

\* C10: for any base currency, amount and non-empty list of targets the batch
\* operation returns exactly one conversion per requested target, ordered by
\* converted_amount descending.
C10_BatchRankedDescending ==
    (IsBatchCall /\ Len(result.to_currencies) > 0
       /\ result.from_currency \in get_currency_list
       /\ \A i \in 1..Len(result.to_currencies) :
              result.to_currencies[i] \in get_currency_list)
        => /\ Returned
           /\ OnePerTarget(result.to_currencies, result.out.conversions)
           /\ Descending(result.out.conversions)

\* C11: for every returned batch, best_conversion is a conversion of the
\* batch whose converted_amount no other conversion exceeds, and at least one
\* tip names its currency.
C11_BestIsNamedAndReported ==
    (IsBatchCall /\ Returned)
        => /\ \E i \in 1..Len(result.out.conversions) :
                  result.out.conversions[i] = result.out.best_conversion
           /\ \A j \in 1..Len(result.out.conversions) :
                  ~DLess(result.out.best_conversion.converted_amount,
                         result.out.conversions[j].converted_amount)
           /\ \E t \in 1..Len(result.out.tips) :
                  /\ result.out.tips[t].kind = "best"
                  /\ result.out.tips[t].currency
                       = result.out.best_conversion.to_currency

\* a returned batch whose largest conversion is not the first one requested
C11_Witness ==
    /\ IsBatchCall /\ Returned
    /\ Len(result.out.conversions) >= 2
    /\ DLess(result.out.conversions[1].converted_amount,
             result.out.best_conversion.converted_amount)

\* C12: in a batch, every target whose own conversion resolves is part of the
\* returned advice with its own result, whatever happens to the other targets.
C12_FailureStaysWithItsTarget ==
    IsBatchCall
        => \A i \in 1..Len(result.to_currencies) :
               convert_currency(result.amount, result.from_currency,
                                result.to_currencies[i], result.fetch).status = "ok"
                   => /\ Returned
                      /\ \E j \in 1..Len(result.out.conversions) :
                             result.out.conversions[j]
                               = convert_currency(result.amount, result.from_currency,
                                                  result.to_currencies[i], result.fetch)

\* C13: every returned convert_currency has converted_amount equal to the
\* exact product amount * rate, carries the rate and the source of the
\* ExchangeRate resolved for the same pair in that call, and echoes amount,
\* from_currency and to_currency.
C13_ConversionIsExactProduct ==
    (IsConvertCall /\ Returned)
        => /\ DEq(result.out.converted_amount,
                  Dec(result.out.amount.m * result.out.rate.m,
                      result.out.amount.e + result.out.rate.e))
           /\ result.out.rate
                = get_exchange_rate(result.from_currency, result.to_currency,
                                    result.fetch).rate
           /\ result.out.source
                = get_exchange_rate(result.from_currency, result.to_currency,
                                    result.fetch).source
           /\ DEq(result.out.amount, Dec(result.amount, 0))
           /\ result.out.from_currency = result.from_currency
           /\ result.out.to_currency = result.to_currency

\* a returned conversion of a non-zero amount at a table rate with more
\* than two decimal places
C13_Witness ==
    /\ IsConvertCall /\ Returned
    /\ result.amount # 0
    /\ result.out.branch = "table"
    /\ result.out.converted_amount.e < -2
    /\ result.out.converted_amount.m
         % Pow10((-2) - result.out.converted_amount.e) # 0

\* the digit string ds times the small integer m, plus carry
RECURSIVE TimesInt(_, _, _)
TimesInt(ds, m, carry) ==
    IF ds = <<>>
    THEN DigitsOf(carry)
    ELSE Append(TimesInt(SubSeq(ds, 1, Len(ds) - 1), m,
                         (ds[Len(ds)] * m + carry) \div 10),
                (ds[Len(ds)] * m + carry) % 10)

\* the number written by ps, times 10^x, is 1 to t decimal places: either
\* 1.000..0abc or 0.999..9abc
OneWithin(ps, x, t) ==
    \/ /\ Len(ps) + x = 1
       /\ ps[1] = 1
       /\ \A i \in 2..Len(ps) : i <= t + 1 => ps[i] = 0
    \/ /\ Len(ps) + x = 0
       /\ Len(ps) >= t
       /\ \A i \in 1..t : ps[i] = 9

\* rate * inverse_rate = 1 to all but the last two digits of the context
IsReciprocal(rate, inverse_rate) ==
    /\ inverse_rate.sign = 1
    /\ OneWithin(TimesInt(inverse_rate.digits, rate.m, 0),
                 inverse_rate.e + rate.e, DecimalPrec - 2)

\* C14: every ExchangeRate returned by get_exchange_rate, and every one that
\* _get_mock_rate returns for the same pair, has rate > 0 and an inverse_rate
\* with rate * inverse_rate = 1 to the precision of the decimal context.
C14_InverseIsReciprocal ==
    (IsRateCall /\ Returned)
        => /\ result.out.rate.m > 0
           /\ IsReciprocal(result.out.rate, result.out.inverse_rate)
           /\ get_mock_rate(result.from_currency, result.to_currency).rate.m > 0
           /\ IsReciprocal(
                  get_mock_rate(result.from_currency, result.to_currency).rate,
                  get_mock_rate(result.from_currency, result.to_currency).inverse_rate)

\* a returned rate whose reciprocal does not terminate (1 / 0.138)
C14_Witness ==
    /\ IsRateCall /\ Returned
    /\ result.out.rate.m = 138
    /\ Len(result.out.inverse_rate.digits) = DecimalPrec

\* C15: the ExchangeRate returned for a pair that no tier knows differs, in
\* what the caller can read of its provenance, from the ExchangeRate returned
\* for a same-currency pair (X, X): the two never agree on both rate and
\* source.
C15_UnknownPairIsMarked ==
    (IsRateCall /\ kept.op = "get_exchange_rate"
       /\ Returned /\ kept.out.status = "ok"
       /\ AbsentFromEveryTier(kept.from_currency, kept.to_currency)
       /\ result.from_currency = result.to_currency)
        => ~(/\ DEq(kept.out.rate, result.out.rate)
             /\ kept.out.inverse_rate = result.out.inverse_rate
             /\ kept.out.source = result.out.source)

StepsAgree ==
    (IsBatchCall /\ ~result.cancelled)
        => result.out = get_travel_exchange_advice(result.amount,
                            result.from_currency, result.to_currencies,
                            result.fetch)

\* C17: in the batch the per-target resolutions overlap: while the
\* conversion of one target is awaited and a later target is still to be
\* converted, the conversion of that later target may start; and advice is
\* returned only when every target has been converted.
C17_ResolutionsOverlap ==
    /\ (run.pc = "await" /\ Len(run.conversions) + 1 < Len(run.to_currencies))
           => ENABLED StartConversion
    /\ (IsBatchCall /\ Returned)
           => result.resolved = Len(result.to_currencies)

\* the tiers in the order the claim fixes, and the tag of each
TierOrder == <<"live", "pivot", "reference", "mock">>

TierTag ==
    [live |-> "LiveProvider", pivot |-> "PivotComposed",
     reference |-> "Reference", mock |-> "Mock"]

\* the tiers get_exchange_rate went through for a returned ExchangeRate, in
\* the order of the code: the fetch of the try-branch, and after its failure
\* _get_mock_rate, which looks into the table first, composes through USD
\* next and falls back to default_rate last
TiersConsulted(out) ==
    IF out.source = TagRealAPI
    THEN <<"live">>
    ELSE IF out.branch = "table"
    THEN <<"live", "reference">>
    ELSE IF out.branch \in {"product", "single_leg"}
    THEN <<"live", "reference", "pivot">>
    ELSE <<"live", "reference", "mock">>

\* C18: every returned resolution of a pair of distinct currencies went
\* through the tiers live, pivot, reference, Mock in that order, stopping at
\* the first that succeeded, and carries the tag of the tier it stopped at.
C18_TiersInFixedOrder ==
    (IsRateCall /\ Returned /\ result.from_currency # result.to_currency)
        => /\ \A i \in 1..Len(TiersConsulted(result.out)) :
                  TiersConsulted(result.out)[i] = TierOrder[i]
           /\ result.out.source
                = TierTag[TiersConsulted(result.out)[Len(TiersConsulted(result.out))]]

\* C19: a pair without a direct entry for which rate(X, USD) is known and
\* rate(USD, Y) is not is never resolved to the single leg rate(X, USD):
\* composing through USD needs both legs.
C19_PivotNeedsBothLegs ==
    (IsRateCall
       /\ result.from_currency # result.to_currency
       /\ ~InTable(result.from_currency, result.to_currency)
       /\ ~(InTable(result.from_currency, "USD")
              /\ InTable("USD", result.to_currency)))
        => ~(/\ Returned
             /\ InTable(result.from_currency, "USD")
             /\ result.out.rate = mock_rates[result.from_currency]["USD"])

\* some tip of the given kind names the currency
HasTip(tips, kind, currency) ==
    \E t \in 1..Len(tips) : tips[t] = Tip(kind, currency)

\* vals[i] > 1.2 * mean(vals) and vals[i] < 0.8 * mean(vals), in integers
AboveMean(vals, i) == 5 * Len(vals) * vals[i] > 6 * SumSeq(vals)
BelowMean(vals, i) == 5 * Len(vals) * vals[i] < 4 * SumSeq(vals)

\* the claim's three cases for the conversion at position i
TipsMatchMean(conversions, vals, tips, i) ==
    /\ HasTip(tips, "above_average", conversions[i].to_currency)
         <=> AboveMean(vals, i)
    /\ HasTip(tips, "below_average", conversions[i].to_currency)
         <=> BelowMean(vals, i)

\* C20: for every conversion c of a returned batch an above-average tip naming
\* c.to_currency is emitted exactly when c.converted_amount > 1.2 x the mean
\* of the batch, a below-average tip exactly when it is < 0.8 x the mean, and
\* neither in between.
C20_ValueTipsFollowMean ==
    (IsBatchCall /\ Returned)
        => \A i \in 1..Len(result.out.conversions) :
               TipsMatchMean(result.out.conversions,
                             Scaled(result.out.conversions),
                             result.out.tips, i)

\* the same statement for the batches whose budget is not negative
ValueTipsFollowMeanFromZeroUp ==
    (IsBatchCall /\ result.amount >= 0) => C20_ValueTipsFollowMean

IsTipsCall == result.op = "_generate_exchange_tips"

\* the tips that name no currency
GeneralKinds ==
    {"general_authorized_venue", "general_little_cash", "general_query_again"}

\* C21: every tips list _generate_exchange_tips returns, for an empty batch
\* as for any other, ends with the authorized-venue tip followed by the
\* little-cash tip, and holds no other general tip.
C21_EndsWithTwoGeneralTips ==
    IsTipsCall
        => /\ Len(result.out.tips) >= 2
           /\ result.out.tips[Len(result.out.tips) - 1]
                = Tip("general_authorized_venue", "")
           /\ result.out.tips[Len(result.out.tips)]
                = Tip("general_little_cash", "")
           /\ Cardinality({t \in 1..Len(result.out.tips) :
                             result.out.tips[t].kind \in GeneralKinds}) = 2

IsHistoryCall == result.op = "get_historical_rates"

\* C23: for start <= end, get_historical_rates returns a daily series with
\* exactly (end - start).days + 1 entries.
C23_HistoryHasOneEntryPerDay ==
    IsHistoryCall
        => /\ Returned
           /\ Len(result.out.rates) = result.days + 1

TableRows == {"CNY", "USD", "JPY", "EUR"}

C28_BestIsNeverBelowAverage ==
    (IsBatchCall /\ Returned /\ result.amount >= 0)
        => /\ ~HasTip(result.out.tips, "below_average",
                      result.out.tips[1].currency)
           /\ result.out.tips[1].kind = "best"
           /\ \A i \in 1..Len(result.out.conversions) :
                  ~(/\ HasTip(result.out.tips, "above_average",
                              result.out.conversions[i].to_currency)
                    /\ HasTip(result.out.tips, "below_average",
                              result.out.conversions[i].to_currency))

\* advice from a positive budget in which one currency is tipped as above
\* average and another as below
C28_Witness ==
    /\ IsBatchCall /\ Returned /\ result.amount > 0
    /\ \E i, j \in 1..Len(result.out.conversions) :
           /\ HasTip(result.out.tips, "above_average",
                     result.out.conversions[i].to_currency)
           /\ HasTip(result.out.tips, "below_average",
                     result.out.conversions[j].to_currency)

\* C29: get_travel_exchange_advice with an empty list of targets ends in the
\* ValueError of max() over an empty sequence and returns no advice, while
\* _generate_exchange_tips with an empty list returns an empty list of tips.
C29_EmptyBatchRaises ==
    /\ (IsBatchCall /\ Len(result.to_currencies) = 0)
           => result.out = Raised("ValueError")
    /\ (IsTipsCall /\ Len(result.conversions) = 0)
           => result.out = [status |-> "ok", tips |-> << >>]

\* the batch operation called with no targets has ended
C29_Witness ==
    /\ IsBatchCall
    /\ result.to_currencies = << >>
    /\ result.out.status = "ValueError"

\* a history entry as it reads: the updates of an update entry are the
\* contents of the dict object the entry refers to
EntryRead(m, e) ==
    IF e.action = "update"
    THEN [key |-> e.key, preferences |-> e.preferences, action |-> e.action,
          updates |-> m.dicts[e.updates], timestamp |-> e.timestamp]
    ELSE e

HistoryRead(m) ==
    [i \in 1..Len(m.preferences_history) |->
        EntryRead(m, m.preferences_history[i])]

\* one call: a True return adds exactly one entry after the unchanged
\* entries, a False return leaves preferences and history as they were
AppendsOnTrue(before, after, preferences, preferences2, value) ==
    IF value
    THEN /\ Len(after) = Len(before) + 1
         /\ SubSeq(after, 1, Len(before)) = before
    ELSE /\ after = before
         /\ preferences2 = preferences

\* C30: the history is append-only; every call of save, update, delete or
\* clear_all that returns True adds exactly one entry and leaves the earlier
\* entries as they were, and every call that returns False leaves both the
\* preferences and the history unchanged.
C30_HistoryIsAppendOnly ==
    [][AppendsOnTrue(HistoryRead(mgr), HistoryRead(mgr'), mgr.preferences,
                     mgr'.preferences, result'.out.value)]_vars

\* the same, for the list of entries alone (which entry objects the list
\* holds, not what they read)
HistoryListIsAppendOnly ==
    [][AppendsOnTrue(mgr.preferences_history, mgr'.preferences_history,
                     mgr.preferences, mgr'.preferences,
                     result'.out.value)]_vars

===========================================================================
